---- MODULE Spec2Model ----
(***************************************************************************)
(* Model of the tezos-delegation service (main.go): the ingestion worker   *)
(* fetchDelegations, the watermark getLastTimestamp, the query handler     *)
(* getDelegations and the lifecycle in main (signal goroutine, WaitGroup,  *)
(* srv.Shutdown, ListenAndServe).                                          *)
(*                                                                         *)
(* Timestamps are the fixed-format ISO-8601 strings of the feed; they are  *)
(* modelled as integer instants 1..MaxTs whose order is the strings'       *)
(* lexicographic order, TicksPerYear instants to a calendar year.  The     *)
(* empty string (no year parameter, unset local) is EmptyString.           *)
(***************************************************************************)
EXTENDS Integers, Sequences, FiniteSets, TLC

\* ---------------------------------------------------------------- bounds
MaxTs == 4          \* instants 1..MaxTs
MaxFeed == 3        \* records in the remote feed
MaxRows == 3        \* rows a test inserts before calling a function
MaxFails == 2       \* consecutive failed fetches
MaxRestarts == 1    \* process restarts
PageLimit == 2      \* "limit=10000" of the fetch URL, scaled down

\* ------------------------------------------------------------- constants
TicksPerYear == 2   \* instants to a calendar year
BaseYear == 2022    \* the year of instants 0 and 1
DefaultEpoch == 2   \* "2023-08-23T00:00:00Z"
EmptyString == 0
StatusOK == 200
StatusInternalServerError == 500

Timestamps == 1..MaxTs
Delegators == {"tz1A", "tz1B"}
Amounts == {1000}

\* strftime('%Y', timestamp): the year component of a timestamp
Year(ts) == BaseYear + (ts \div TicksPerYear)

\* block height of the block baked at an instant
LevelAt(ts) == 100 + ts

\* the element type of `fetched`: timestamp, amount, sender.address, level
RawRecord(ts, amt, addr) ==
    [timestamp |-> ts, amount |-> amt, sender |-> [address |-> addr], level |-> LevelAt(ts)]

RawRecords == {RawRecord(ts, amt, addr) : ts \in Timestamps, amt \in Amounts, addr \in Delegators}

\* what the remote API may hold: operations from the instant of the default
\* epoch on (the epoch's own instant is never asked for: timestamp.gt)
FeedRecords == {f \in RawRecords : f.timestamp >= DefaultEpoch}

\* a row of table delegations / a Delegation value
Delegation(ts, amt, del, lvl) ==
    [timestamp |-> ts, amount |-> amt, delegator |-> del, level |-> lvl]

\* the values bound to the INSERT's four placeholders
RowOf(f) == Delegation(f.timestamp, f.amount, f.sender.address, f.level)

Rows == {RowOf(f) : f \in RawRecords}

Range(s) == {s[i] : i \in 1..Len(s)}

\* PRIMARY KEY (timestamp, delegator)
KeyOf(row) == <<row.timestamp, row.delegator>>

HasKey(tbl, row) == \E i \in 1..Len(tbl) : KeyOf(tbl[i]) = KeyOf(row)

UniqueKeys(tbl) ==
    \A i, j \in 1..Len(tbl) : KeyOf(tbl[i]) = KeyOf(tbl[j]) => i = j

\* ------------------------------------------------------ Checkpoint Store
\* the (err, RowsAffected) of a db.Exec and the table it leaves
ExecResult(tbl, err, n) == [table |-> tbl, err |-> err, rowsAffected |-> n]

\* faulty variant of InsertOrIgnore: INSERT OR REPLACE, a row with the same
\* key is overwritten with the new values
InsertOrReplace(tbl, row, fault) ==
    IF fault THEN ExecResult(tbl, "busy", 0)
    ELSE IF HasKey(tbl, row)
         THEN ExecResult([i \in 1..Len(tbl) |->
                             IF KeyOf(tbl[i]) = KeyOf(row) THEN row ELSE tbl[i]], "nil", 1)
    ELSE ExecResult(Append(tbl, row), "nil", 1)

\* faulty variant of InsertOrIgnore: the table has no PRIMARY KEY, every
\* INSERT adds a row
InsertNoKey(tbl, row, fault) ==
    IF fault THEN ExecResult(tbl, "busy", 0)
    ELSE ExecResult(Append(tbl, row), "nil", 1)

\* INSERT OR IGNORE INTO delegations ... under PRIMARY KEY (timestamp, delegator);
\* fault: the engine refuses the statement (database is locked, disk I/O error)
InsertOrIgnore(tbl, row, fault) ==
    IF fault THEN ExecResult(tbl, "busy", 0)
    ELSE IF HasKey(tbl, row) THEN ExecResult(tbl, "nil", 0)
    ELSE ExecResult(Append(tbl, row), "nil", 1)

\* faulty variant of FirstTimestampDesc: ORDER BY timestamp ASC LIMIT 1
FirstTimestampAsc(tbl) ==
    CHOOSE t \in {r.timestamp : r \in Range(tbl)} :
        \A r \in Range(tbl) : r.timestamp >= t

\* SELECT timestamp FROM delegations ORDER BY timestamp DESC LIMIT 1
FirstTimestampDesc(tbl) ==
    CHOOSE t \in {r.timestamp : r \in Range(tbl)} :
        \A r \in Range(tbl) : r.timestamp <= t

\* faulty variant of getLastTimestamp: no ORDER BY, the row inserted last
getLastTimestampLastRow(tbl, scanErr) ==
    IF scanErr THEN DefaultEpoch
    ELSE IF tbl = <<>> THEN DefaultEpoch
    ELSE tbl[Len(tbl)].timestamp

\* faulty variant of getLastTimestamp: on a storage error the zero value of
\* the local is returned instead of the default epoch
getLastTimestampZero(tbl, scanErr) ==
    IF scanErr THEN EmptyString
    ELSE IF tbl = <<>> THEN DefaultEpoch
    ELSE FirstTimestampDesc(tbl)

\* faulty variant of getLastTimestamp: the oldest row instead of the newest
getLastTimestampAsc(tbl, scanErr) ==
    IF scanErr THEN DefaultEpoch
    ELSE IF tbl = <<>> THEN DefaultEpoch
    ELSE FirstTimestampAsc(tbl)

\* scanErr: row.Scan returns an error other than sql.ErrNoRows
getLastTimestamp(tbl, scanErr) ==
    IF scanErr THEN DefaultEpoch
    ELSE IF tbl = <<>> THEN DefaultEpoch
    ELSE FirstTimestampDesc(tbl)

\* ---------------------------------------------------- Remote Source Client
\* order in which the remote API lists operations (by id: by block, then
\* by position in the block)
FeedRank(f) == (f.timestamp * 10) + (IF f.sender.address = "tz1A" THEN 1 ELSE 2)

RECURSIVE SortByRank(_)
SortByRank(S) ==
    IF S = {} THEN <<>>
    ELSE LET f == CHOOSE x \in S : \A y \in S : FeedRank(x) <= FeedRank(y)
         IN  <<f>> \o SortByRank(S \ {f})

Take(s, n) == SubSeq(s, 1, IF Len(s) < n THEN Len(s) ELSE n)

\* the answer to GET ...?timestamp.gt=<since>&limit=<PageLimit>
FeedPage(remote, since) ==
    Take(SortByRank({f \in remote : f.timestamp > since}), PageLimit)

\* ------------------------------------------------------------ Query Service
\* faulty variant of MatchesYear: the WHERE clause is dropped
MatchesAnyYear(row, year) == TRUE

\* year = "" selects the unfiltered query, otherwise strftime('%Y', timestamp) = ?
MatchesYear(row, year) == year = EmptyString \/ Year(row.timestamp) = year

SelectRows(tbl, year) == {r \in Range(tbl) : MatchesYear(r, year)}

\* faulty variant of OrderedDesc: the ORDER BY clause is dropped, the engine
\* may yield the selected rows in any order
RECURSIVE OrderedAny(_)
OrderedAny(S) ==
    IF S = {} THEN {<<>>}
    ELSE UNION {{<<r>> \o t : t \in OrderedAny(S \ {r})} : r \in S}

\* ORDER BY timestamp DESC: every order of the selected rows the engine may
\* produce (rows with equal timestamps come in an unspecified order)
RECURSIVE OrderedDesc(_)
OrderedDesc(S) ==
    IF S = {} THEN {<<>>}
    ELSE UNION {{<<r>> \o t : t \in OrderedDesc(S \ {r})} :
                   r \in {x \in S : \A y \in S : y.timestamp <= x.timestamp}}

\* var delegations []Delegation
NilSlice == [isNil |-> TRUE, elems |-> <<>>]

\* append(delegations, d)
GoAppend(slice, d) == [isNil |-> FALSE, elems |-> Append(slice.elems, d)]

\* for rows.Next() { rows.Scan(&d...); delegations = append(delegations, d) }
RECURSIVE ScanAll(_, _, _)
ScanAll(rows, i, slice) ==
    IF i > Len(rows) THEN slice
    ELSE ScanAll(rows, i + 1, GoAppend(slice, rows[i]))

\* json.Encoder on map[string][]Delegation{"data": slice}: a nil slice is
\* encoded as null, any other slice as an array
EncodeData(slice) ==
    IF slice.isNil THEN [kind |-> "null", elems |-> <<>>]
    ELSE [kind |-> "array", elems |-> slice.elems]

Response(status, body) == [status |-> status, body |-> body]

NoResponse == Response(0, [kind |-> "none", elems |-> <<>>])

\* http.Error(w, msg, http.StatusInternalServerError)
ErrorResponse == Response(StatusInternalServerError, [kind |-> "text", elems |-> <<>>])

sendJSONResponse(status, slice) == Response(status, EncodeData(slice))

QueryOutcomes == {"ok", "query", "scan", "rows"}

\* getDelegations without the rows.Err() check after the scan loop
getDelegationsNoRowsErr(rows, outcome) ==
    IF outcome = "query" THEN ErrorResponse
    ELSE IF outcome = "scan" /\ rows # <<>> THEN ErrorResponse
    ELSE sendJSONResponse(StatusOK, ScanAll(rows, 1, NilSlice))

\* rows: the result set in the order the engine yields it; outcome: which
\* storage call, if any, fails
getDelegations(rows, outcome) ==
    IF outcome = "query" THEN ErrorResponse
    ELSE IF outcome = "scan" /\ rows # <<>> THEN ErrorResponse
    ELSE IF outcome = "rows" THEN ErrorResponse
    ELSE sendJSONResponse(StatusOK, ScanAll(rows, 1, NilSlice))

\* the values of the year parameter tried: none, each year of an instant,
\* and one year after them all
YearParams == {EmptyString} \cup {Year(t) : t \in Timestamps} \cup {Year(MaxTs) + 1}

\* -------------------------------------------------------------------- state
VARIABLES
    store,          \* rows of table delegations (in the file, survives the process)
    feed,           \* the records the remote API holds
    proc,           \* the process: "starting", "serving", or how it ended
    wpc,            \* fetchDelegations: where the goroutine is
    wg,             \* the WaitGroup counter
    stopChan,       \* "open" or "closed"
    lastTimestamp,  \* fetchDelegations' local; also the value a direct call returned
    readErr,        \* whether that getLastTimestamp call logged a storage error
    fetched,        \* the decoded batch of the cycle
    idx,            \* position of the range loop in fetched
    execRes,        \* err and RowsAffected of the last db.Exec
    fails,          \* failed fetches since the last completed batch
    sigpc,          \* the signal goroutine of main
    hpc,            \* the HTTP connection: "idle" or "active" (a request in flight)
    reqYear,        \* r.URL.Query().Get("year") of the last request
    resp,           \* the last response written
    sigMidCycle,    \* history: the signal came with a fetch or a batch in flight
    interrupted,    \* history: rows of the batch a dying process left unstored
    restarts,       \* history: number of restarts
    served,         \* history: storage outcome of the last handled request
    maxBound        \* history: greatest fetch lower bound a cycle has used

vars == <<store, feed, proc, wpc, wg, stopChan, lastTimestamp, readErr, fetched, idx,
          execRes, fails, sigpc, hpc, reqYear, resp, served, sigMidCycle, interrupted,
          restarts, maxBound>>

workerVars == <<wpc, wg, lastTimestamp, readErr, fetched, idx, execRes, fails>>
httpVars == <<hpc, reqYear, resp, served>>
mainVars == <<proc, sigpc, stopChan, sigMidCycle>>
histVars == <<interrupted, restarts, maxBound>>

NoExec == [err |-> "none", rowsAffected |-> 0]

\* no request has been handled: which storage outcome the last handled request
\* met, and how many fetches in a row had failed when it ran
NoServed == [outcome |-> "none", fails |-> 0]

\* remote feeds: at most MaxFeed operations, one per (timestamp, sender)
Feeds == {F \in SUBSET FeedRecords : Cardinality(F) <= MaxFeed}

\* what a process start sets, whatever the file holds
Fresh ==
    /\ proc = "starting"
    /\ wpc = "notstarted"
    /\ wg = 0
    /\ stopChan = "open"
    /\ lastTimestamp = EmptyString
    /\ readErr = FALSE
    /\ fetched = <<>>
    /\ idx = 0
    /\ execRes = NoExec
    /\ fails = 0
    /\ sigpc = "notstarted"
    /\ hpc = "idle"
    /\ reqYear = EmptyString
    /\ resp = NoResponse
    /\ served = NoServed
    /\ sigMidCycle = FALSE

Init ==
    /\ store = <<>>
    /\ feed \in Feeds
    /\ Fresh
    /\ interrupted = {}
    /\ restarts = 0
    /\ maxBound = EmptyString

inShutdown == sigpc \in {"draining", "wgwait", "done"}

\* ------------------------------------------------------------------ startup
\* main up to the "Server is running" line: initDB succeeds, the worker and the
\* signal goroutine are started, ListenAndServe begins serving
InitDBOk ==
    /\ proc = "starting"
    /\ proc' = "serving"
    /\ wg' = wg + 1
    /\ wpc' = "select"
    /\ sigpc' = "wait"
    /\ UNCHANGED <<store, feed, stopChan, lastTimestamp, readErr, fetched, idx, execRes,
                   fails, httpVars, sigMidCycle, histVars>>

\* initDB returns an error: log.Fatalf
InitDBFail ==
    /\ proc = "starting"
    /\ proc' = "fatal_init"
    /\ UNCHANGED <<store, feed, workerVars, httpVars, sigpc, stopChan, sigMidCycle, histVars>>

\* ----------------------------------------------------------- fetchDelegations
\* select: case <-stopChan: return, with the deferred wg.Done()
WorkerStop ==
    /\ proc = "serving"
    /\ wpc = "select"
    /\ stopChan = "closed"
    /\ wpc' = "returned"
    /\ wg' = wg - 1
    /\ UNCHANGED <<store, feed, lastTimestamp, readErr, fetched, idx, execRes, fails,
                   httpVars, mainVars, histVars>>

\* faulty variant of WorkerCycle: the select has no stop case, the default
\* branch is always taken
WorkerCycleUnchecked ==
    /\ proc = "serving"
    /\ wpc = "select"
    /\ wpc' = "read"
    /\ UNCHANGED <<store, feed, wg, lastTimestamp, readErr, fetched, idx, execRes, fails,
                   httpVars, mainVars, histVars>>

\* select: default, taken only when stopChan is not ready: a cycle begins
WorkerCycle ==
    /\ proc = "serving"
    /\ wpc = "select"
    /\ stopChan = "open"
    /\ wpc' = "read"
    /\ UNCHANGED <<store, feed, wg, lastTimestamp, readErr, fetched, idx, execRes, fails,
                   httpVars, mainVars, histVars>>

\* faulty variant of WorkerRead: the watermark is read from the table by the
\* first cycle only and the value is kept for the cycles after it
WorkerReadCached(scanErr) ==
    /\ proc = "serving"
    /\ wpc = "read"
    /\ lastTimestamp' = IF maxBound # EmptyString THEN maxBound
                        ELSE getLastTimestamp(store, scanErr)
    /\ readErr' = (maxBound = EmptyString /\ scanErr)
    /\ wpc' = "fetch"
    /\ maxBound' = IF lastTimestamp' > maxBound THEN lastTimestamp' ELSE maxBound
    /\ UNCHANGED <<store, feed, wg, fetched, idx, execRes, fails, httpVars, mainVars,
                   interrupted, restarts>>

\* lastTimestamp := getLastTimestamp(db)
WorkerRead(scanErr) ==
    /\ proc = "serving"
    /\ wpc = "read"
    /\ lastTimestamp' = getLastTimestamp(store, scanErr)
    /\ readErr' = scanErr
    /\ wpc' = "fetch"
    /\ maxBound' = IF lastTimestamp' > maxBound THEN lastTimestamp' ELSE maxBound
    /\ UNCHANGED <<store, feed, wg, fetched, idx, execRes, fails, httpVars, mainVars,
                   interrupted, restarts>>

\* http.Get, io.ReadAll and json.Unmarshal all succeed
FetchOk ==
    /\ proc = "serving"
    /\ wpc = "fetch"
    /\ fetched' = FeedPage(feed, lastTimestamp)
    /\ idx' = 1
    /\ wpc' = "upsert"
    /\ UNCHANGED <<store, feed, wg, lastTimestamp, readErr, execRes, fails, httpVars,
                   mainVars, histVars>>

FetchErrors == {"transport", "body", "decode"}

\* faulty variant of FetchFail: log.Fatalf instead of log.Printf, the process
\* ends on a failed fetch
FetchFailFatal(kind) ==
    /\ proc = "serving"
    /\ wpc = "fetch"
    /\ fails < MaxFails
    /\ fails' = fails + 1
    /\ proc' = "fatal_fetch"
    /\ UNCHANGED <<store, feed, wpc, wg, lastTimestamp, readErr, fetched, idx, execRes,
                   httpVars, sigpc, stopChan, sigMidCycle, histVars>>

\* faulty variant of FetchFail: return instead of continue, the goroutine
\* ends on a failed fetch
FetchFailReturn(kind) ==
    /\ proc = "serving"
    /\ wpc = "fetch"
    /\ fails < MaxFails
    /\ fails' = fails + 1
    /\ wpc' = "returned"
    /\ wg' = wg - 1
    /\ lastTimestamp' = EmptyString
    /\ readErr' = FALSE
    /\ UNCHANGED <<store, feed, fetched, idx, execRes, httpVars, mainVars, histVars>>

\* http.Get, io.ReadAll or json.Unmarshal fails: log, sleep, continue
FetchFail(kind) ==
    /\ proc = "serving"
    /\ wpc = "fetch"
    /\ fails < MaxFails
    /\ fails' = fails + 1
    /\ wpc' = "backoff"
    /\ lastTimestamp' = EmptyString
    /\ readErr' = FALSE
    /\ UNCHANGED <<store, feed, wg, fetched, idx, execRes, httpVars, mainVars, histVars>>

\* faulty variant of Upsert: a failed db.Exec is handled like a failed fetch,
\* the rest of the batch is dropped and the worker sleeps the 10 s
UpsertAbort(fault) ==
    /\ proc = "serving"
    /\ wpc = "upsert"
    /\ idx <= Len(fetched)
    /\ LET res == InsertOrIgnore(store, RowOf(fetched[idx]), fault)
       IN  /\ store' = res.table
           /\ execRes' = [err |-> res.err, rowsAffected |-> res.rowsAffected]
    /\ IF fault
       THEN wpc' = "backoff" /\ idx' = 0 /\ fetched' = <<>>
       ELSE wpc' = wpc /\ idx' = idx + 1 /\ fetched' = fetched
    /\ UNCHANGED <<feed, wg, lastTimestamp, readErr, fails, httpVars, mainVars, histVars>>

\* one iteration of the range loop: db.Exec("INSERT OR IGNORE ..."), an
\* error is logged and the loop goes on
Upsert(fault) ==
    /\ proc = "serving"
    /\ wpc = "upsert"
    /\ idx <= Len(fetched)
    /\ LET res == InsertOrIgnore(store, RowOf(fetched[idx]), fault)
       IN  /\ store' = res.table
           /\ execRes' = [err |-> res.err, rowsAffected |-> res.rowsAffected]
    /\ idx' = idx + 1
    /\ UNCHANGED <<feed, wpc, wg, lastTimestamp, readErr, fetched, fails, httpVars,
                   mainVars, histVars>>

\* faulty variant of BatchDone: wg.Done() is called at the end of every
\* batch instead of being deferred to the return of the goroutine
BatchDoneReleases ==
    /\ proc = "serving"
    /\ wpc = "upsert"
    /\ idx > Len(fetched)
    /\ wpc' = "sleep"
    /\ wg' = wg - 1
    /\ fetched' = <<>>
    /\ idx' = 0
    /\ lastTimestamp' = EmptyString
    /\ readErr' = FALSE
    /\ execRes' = NoExec
    /\ fails' = 0
    /\ UNCHANGED <<store, feed, httpVars, mainVars, histVars>>

\* the range loop is over: time.Sleep(30 * time.Second) of line 118 begins
BatchDone ==
    /\ proc = "serving"
    /\ wpc = "upsert"
    /\ idx > Len(fetched)
    /\ wpc' = "sleep"
    /\ fetched' = <<>>
    /\ idx' = 0
    /\ lastTimestamp' = EmptyString
    /\ readErr' = FALSE
    /\ execRes' = NoExec
    /\ fails' = 0
    /\ UNCHANGED <<store, feed, wg, httpVars, mainVars, histVars>>

\* the polling sleep ends: back to the select
WakePoll ==
    /\ proc = "serving"
    /\ wpc = "sleep"
    /\ wpc' = "select"
    /\ UNCHANGED <<store, feed, wg, lastTimestamp, readErr, fetched, idx, execRes, fails,
                   httpVars, mainVars, histVars>>

\* the sleep after a failed fetch ends: continue, back to the select
WakeBackoff ==
    /\ proc = "serving"
    /\ wpc = "backoff"
    /\ wpc' = "select"
    /\ UNCHANGED <<store, feed, wg, lastTimestamp, readErr, fetched, idx, execRes, fails,
                   httpVars, mainVars, histVars>>

\* --------------------------------------------------------------- HTTP server
\* a connection turns active: a request is being read or handled; Shutdown
\* has closed the listener once it has begun
ConnActive ==
    /\ proc = "serving"
    /\ ~inShutdown
    /\ hpc = "idle"
    /\ hpc' = "active"
    /\ UNCHANGED <<store, feed, workerVars, reqYear, resp, served, mainVars, histVars>>

\* the handler has returned and the response is written: the connection is
\* idle again (the handler writes no state of the process)
ConnIdle ==
    /\ proc = "serving"
    /\ hpc = "active"
    /\ hpc' = "idle"
    /\ UNCHANGED <<store, feed, workerVars, reqYear, resp, served, mainVars, histVars>>

\* a GET /xtz/delegations is accepted; Shutdown has closed the listener once
\* it has begun
RequestArrive(year) ==
    /\ proc = "serving"
    /\ ~inShutdown
    /\ hpc = "idle"
    /\ hpc' = "active"
    /\ reqYear' = year
    /\ resp' = NoResponse
    /\ served' = NoServed
    /\ UNCHANGED <<store, feed, workerVars, mainVars, histVars>>

\* faulty variant of HandlerRun: the handler answers 500 while the worker's
\* last fetch has failed
HandlerRunGated ==
    /\ proc = "serving"
    /\ hpc = "active"
    /\ \E rows \in OrderedDesc(SelectRows(store, reqYear)), outcome \in QueryOutcomes :
          /\ outcome = "scan" => rows # <<>>
          /\ resp' = IF fails > 0 THEN ErrorResponse ELSE getDelegations(rows, outcome)
          /\ served' = [outcome |-> outcome, fails |-> fails]
    /\ hpc' = "idle"
    /\ UNCHANGED <<store, feed, workerVars, reqYear, mainVars, histVars>>

\* getDelegations runs: db.Query with or without the year, the scan loop,
\* the response
HandlerRun ==
    /\ proc = "serving"
    /\ hpc = "active"
    /\ \E rows \in OrderedDesc(SelectRows(store, reqYear)), outcome \in QueryOutcomes :
          /\ outcome = "scan" => rows # <<>>
          /\ resp' = getDelegations(rows, outcome)
          /\ served' = [outcome |-> outcome, fails |-> fails]
    /\ hpc' = "idle"
    /\ UNCHANGED <<store, feed, workerVars, reqYear, mainVars, histVars>>

\* ------------------------------------------------- main: the signal goroutine
\* <-c returns (SIGINT or SIGTERM), then close(stopChan)
Signal ==
    /\ proc = "serving"
    /\ sigpc = "wait"
    /\ stopChan' = "closed"
    /\ sigpc' = "closed"
    /\ sigMidCycle' = (wpc \in {"fetch", "upsert"})
    /\ UNCHANGED <<store, feed, proc, workerVars, httpVars, histVars>>

\* srv.Shutdown(ctx) is entered: the server is marked in shutdown and its
\* listener closed, which is what makes ListenAndServe return
ShutdownBegin ==
    /\ proc = "serving"
    /\ sigpc = "closed"
    /\ sigpc' = "draining"
    /\ UNCHANGED <<store, feed, proc, stopChan, sigMidCycle, workerVars, httpVars, histVars>>

\* srv.Shutdown returns nil: no connection is active any more
ShutdownDone ==
    /\ proc = "serving"
    /\ sigpc = "draining"
    /\ hpc = "idle"
    /\ sigpc' = "wgwait"
    /\ UNCHANGED <<store, feed, proc, stopChan, sigMidCycle, workerVars, httpVars, histVars>>

\* faulty variant of ShutdownTimeout: the error of srv.Shutdown is logged
\* with log.Printf and the goroutine goes on to wg.Wait
ShutdownTimeoutLogged ==
    /\ proc = "serving"
    /\ sigpc = "draining"
    /\ hpc = "active"
    /\ sigpc' = "wgwait"
    /\ UNCHANGED <<store, feed, proc, stopChan, sigMidCycle, workerVars, httpVars, histVars>>

\* the 10 s context expires with a connection still active: srv.Shutdown
\* returns the context's error, log.Fatalf
ShutdownTimeout ==
    /\ proc = "serving"
    /\ sigpc = "draining"
    /\ hpc = "active"
    /\ proc' = "fatal_shutdown"
    /\ UNCHANGED <<store, feed, sigpc, stopChan, sigMidCycle, workerVars, httpVars, histVars>>

\* wg.Wait() returns, "Server stopped", the goroutine ends
WgWait ==
    /\ proc = "serving"
    /\ sigpc = "wgwait"
    /\ wg = 0
    /\ sigpc' = "done"
    /\ UNCHANGED <<store, feed, proc, stopChan, sigMidCycle, workerVars, httpVars, histVars>>

\* ------------------------------------------------- main: the main goroutine
\* srv.ListenAndServe returns http.ErrServerClosed as soon as Shutdown has
\* been called; main returns (defer db.Close()) and the process ends with
\* every goroutine
ListenAndServeReturn ==
    /\ proc = "serving"
    /\ inShutdown
    /\ proc' = "exited"
    /\ UNCHANGED <<store, feed, sigpc, stopChan, sigMidCycle, workerVars, httpVars, histVars>>

\* srv.ListenAndServe returns another error (the port cannot be bound, the
\* listener breaks): log.Fatalf
ListenAndServeFail ==
    /\ proc = "serving"
    /\ ~inShutdown
    /\ proc' = "fatal_listen"
    /\ UNCHANGED <<store, feed, sigpc, stopChan, sigMidCycle, workerVars, httpVars, histVars>>

\* -------------------------------------------------------------- environment
\* the process is killed (power loss, SIGKILL) wherever it is
Crash ==
    /\ proc = "serving"
    /\ restarts < MaxRestarts
    /\ proc' = "crashed"
    /\ UNCHANGED <<store, feed, sigpc, stopChan, sigMidCycle, workerVars, httpVars, histVars>>

\* rows of the batch the dead worker was inserting that the table lacks
Unstored == {row \in {RowOf(f) : f \in Range(fetched)} : ~HasKey(store, row)}

\* the binary is started again on the same delegations.db
Restart ==
    /\ proc \notin {"starting", "serving"}
    /\ restarts < MaxRestarts
    /\ restarts' = restarts + 1
    /\ interrupted' = IF wpc = "upsert" THEN Unstored ELSE {}
    /\ proc' = "starting"
    /\ wpc' = "notstarted"
    /\ wg' = 0
    /\ stopChan' = "open"
    /\ lastTimestamp' = EmptyString
    /\ readErr' = FALSE
    /\ fetched' = <<>>
    /\ idx' = 0
    /\ execRes' = NoExec
    /\ fails' = 0
    /\ sigpc' = "notstarted"
    /\ hpc' = "idle"
    /\ reqYear' = EmptyString
    /\ resp' = NoResponse
    /\ served' = NoServed
    /\ sigMidCycle' = FALSE
    /\ UNCHANGED <<store, feed, maxBound>>

Next ==
    \/ InitDBOk
    \/ InitDBFail
    \/ WorkerStop
    \/ WorkerCycle
    \/ \E scanErr \in BOOLEAN : WorkerRead(scanErr)
    \/ FetchOk
    \/ \E kind \in FetchErrors : FetchFail(kind)
    \/ \E fault \in BOOLEAN : Upsert(fault)
    \/ BatchDone
    \/ WakePoll
    \/ WakeBackoff
    \/ ConnActive
    \/ ConnIdle
    \/ Signal
    \/ ShutdownBegin
    \/ ShutdownDone
    \/ ShutdownTimeout
    \/ WgWait
    \/ ListenAndServeReturn
    \/ ListenAndServeFail

Spec == Init /\ [][Next]_vars

\* ------------------------------------------------- the worker left to run
\* The worker alone, with a healthy store and no signal: the goroutine is
\* scheduled, its sleeps end, and at most MaxFails fetches in a row fail.
LiveNext ==
    \/ InitDBOk
    \/ WorkerCycle
    \/ WorkerRead(FALSE)
    \/ FetchOk
    \/ \E kind \in FetchErrors : FetchFail(kind)
    \/ Upsert(FALSE)
    \/ BatchDone
    \/ WakePoll
    \/ WakeBackoff

LiveSpec == Init /\ [][LiveNext]_vars /\ WF_vars(LiveNext)

\* ------------------------------------------------ the worker across restarts
\* The worker with its storage faults, a process that may be killed at any
\* point and started again on the same file.
CrashNext ==
    \/ InitDBOk
    \/ WorkerCycle
    \/ \E scanErr \in BOOLEAN : WorkerRead(scanErr)
    \/ FetchOk
    \/ \E kind \in FetchErrors : FetchFail(kind)
    \/ \E fault \in BOOLEAN : Upsert(fault)
    \/ BatchDone
    \/ WakePoll
    \/ WakeBackoff
    \/ Crash
    \/ Restart

CrashSpec == Init /\ [][CrashNext]_vars

\* ------------------------------------------------ the worker and the handlers
\* The worker and the request handlers on the same table, responses recorded.
ServeNext ==
    \/ InitDBOk
    \/ WorkerCycle
    \/ \E scanErr \in BOOLEAN : WorkerRead(scanErr)
    \/ FetchOk
    \/ \E kind \in FetchErrors : FetchFail(kind)
    \/ \E fault \in BOOLEAN : Upsert(fault)
    \/ BatchDone
    \/ WakePoll
    \/ WakeBackoff
    \/ \E year \in YearParams : RequestArrive(year)
    \/ HandlerRun

ServeSpec == Init /\ [][ServeNext]_vars

\* ------------------------------------- the handlers during a remote outage
\* The worker against a remote API that may fail on any fetch, the table
\* healthy on the worker's side, and the request handlers, whose storage
\* calls may fail.
OutageNext ==
    \/ InitDBOk
    \/ WorkerCycle
    \/ WorkerRead(FALSE)
    \/ FetchOk
    \/ \E kind \in FetchErrors : FetchFail(kind)
    \/ Upsert(FALSE)
    \/ BatchDone
    \/ WakePoll
    \/ WakeBackoff
    \/ \E year \in YearParams : RequestArrive(year)
    \/ HandlerRun

OutageSpec == Init /\ [][OutageNext]_vars

\* ------------------------------------------------ a remote API that revises
\* the remote API now reports another amount, or another level, for an
\* operation it already lists (a correction, a reorganised chain); one
\* operation is revised over a run
FeedRevise(f, field) ==
    /\ f \in feed
    /\ feed \subseteq FeedRecords
    /\ feed' = (feed \ {f}) \cup
                  {IF field = "amount" THEN [f EXCEPT !.amount = @ + 1]
                                       ELSE [f EXCEPT !.level = @ + 1]}
    /\ UNCHANGED <<store, workerVars, httpVars, mainVars, histVars>>

\* The worker, whose watermark read may fail and fall back to the epoch so
\* that stored operations are fetched again, a remote API that revises
\* operations, and the request handler.
ReviseNext ==
    \/ InitDBOk
    \/ WorkerCycle
    \/ \E scanErr \in BOOLEAN : WorkerRead(scanErr)
    \/ FetchOk
    \/ Upsert(FALSE)
    \/ BatchDone
    \/ WakePoll
    \/ \E f \in feed, field \in {"amount", "level"} : FeedRevise(f, field)
    \/ RequestArrive(EmptyString)
    \/ HandlerRun

ReviseSpec == Init /\ [][ReviseNext]_vars

\* ------------------------------------------------- a second writer on the file
\* another fetchDelegations (a second instance of the program on the same
\* delegations.db) executes its INSERT OR IGNORE for an operation the remote
\* API lists; a statement is atomic in the engine, the two batches are not
OtherUpsert(f) ==
    /\ proc = "serving"
    /\ f \in feed
    /\ f.timestamp > DefaultEpoch
    /\ store' = InsertOrIgnore(store, RowOf(f), FALSE).table
    /\ UNCHANGED <<feed, workerVars, httpVars, mainVars, histVars>>

\* The worker inside its batches, a second writer inserting the same
\* operations at any point between the worker's statements, and the request
\* handlers querying at any point between both.
RaceNext ==
    \/ InitDBOk
    \/ WorkerCycle
    \/ WorkerRead(FALSE)
    \/ FetchOk
    \/ Upsert(FALSE)
    \/ BatchDone
    \/ WakePoll
    \/ \E f \in feed : OtherUpsert(f)
    \/ \E year \in YearParams : RequestArrive(year)
    \/ HandlerRun

RaceSpec == Init /\ [][RaceNext]_vars

\* ----------------------------------------------- shutdown with fair scheduling
\* every step fetchDelegations can take, its storage and remote faults included
WorkerNext ==
    \/ WorkerStop
    \/ WorkerCycle
    \/ \E scanErr \in BOOLEAN : WorkerRead(scanErr)
    \/ FetchOk
    \/ \E kind \in FetchErrors : FetchFail(kind)
    \/ \E fault \in BOOLEAN : Upsert(fault)
    \/ BatchDone
    \/ WakePoll
    \/ WakeBackoff

\* what the signal goroutine does once the signal has come
SignalNext ==
    \/ ShutdownBegin
    \/ ShutdownDone
    \/ WgWait

\* The process from its start to a signal and what follows, no request in
\* flight: the three goroutines are each scheduled as long as they can step,
\* every fetch and every storage call returns, every sleep ends. The signal
\* itself may come at any time or never.
ShutdownNext ==
    \/ InitDBOk
    \/ WorkerNext
    \/ Signal
    \/ SignalNext
    \/ ListenAndServeReturn

ShutdownSpec ==
    /\ Init
    /\ [][ShutdownNext]_vars
    /\ WF_vars(InitDBOk)
    /\ WF_vars(WorkerNext)
    /\ WF_vars(SignalNext)
    /\ WF_vars(ListenAndServeReturn)

\* ------------------------------------------ the functions called on a table
\* tables a test sets up with direct INSERTs before calling a function
TestStores ==
    {t \in UNION {[1..n -> Rows] : n \in 0..MaxRows} : UniqueKeys(t)}

StoreInit ==
    /\ store \in TestStores
    /\ feed = {}
    /\ Fresh
    /\ interrupted = {}
    /\ restarts = 0
    /\ maxBound = EmptyString

\* nothing has been called on the table yet: a test sets the table up,
\* calls one function and looks at what it returned
NotCalled == lastTimestamp = EmptyString /\ resp = NoResponse

\* timestamp := getLastTimestamp(db)
CallGetLastTimestamp(scanErr) ==
    /\ NotCalled
    /\ lastTimestamp' = getLastTimestamp(store, scanErr)
    /\ readErr' = scanErr
    /\ UNCHANGED <<store, feed, proc, wpc, wg, stopChan, fetched, idx, execRes, fails,
                   sigpc, httpVars, sigMidCycle, histVars>>

\* handler.ServeHTTP(rr, req) with getDelegations as the handler
CallGetDelegations(year) ==
    /\ NotCalled
    /\ reqYear' = year
    /\ \E rows \in OrderedDesc(SelectRows(store, year)), outcome \in QueryOutcomes :
          /\ outcome = "scan" => rows # <<>>
          /\ resp' = getDelegations(rows, outcome)
          /\ served' = [outcome |-> outcome, fails |-> fails]
    /\ UNCHANGED <<store, feed, workerVars, hpc, mainVars, histVars>>

StoreNext ==
    \/ \E scanErr \in BOOLEAN : CallGetLastTimestamp(scanErr)
    \/ \E year \in YearParams : CallGetDelegations(year)

StoreSpec == StoreInit /\ [][StoreNext]_vars

\* ================================================================ properties

\* C1: after a shutdown signal that arrives while the worker has a fetch or a
\* batch in flight, the process does not end normally before the worker has
\* returned and released the WaitGroup (an expired Shutdown deadline, which
\* ends the process with log.Fatalf, is excepted).
C1_ExitWaitsForWorker ==
    (proc = "exited" /\ sigMidCycle) => (wpc = "returned" /\ wg = 0)

\* every feed record newer than the default epoch is in the table
Converged ==
    \A f \in feed : f.timestamp > DefaultEpoch => HasKey(store, RowOf(f))

\* C2: with no stop signal, a healthy store and fetches that end up
\* succeeding, the worker eventually has every feed record newer than the
\* default epoch in the store.
C2_EventualConvergence == <>Converged

\* the step is one db.Exec of the range loop
UpsertStep == wpc = "upsert" /\ idx' = idx + 1

\* C3: the store never holds two rows with the same (timestamp, delegator);
\* an upsert of a key that is already present leaves the store as it is and
\* the duplicate is not reported as an error (no constraint violation).
C3_UpsertIdempotent ==
    /\ UniqueKeys(store)
    /\ [][/\ UniqueKeys(store')
          /\ (UpsertStep /\ HasKey(store, RowOf(fetched[idx])))
                => (store' = store /\ execRes'.err \in {"nil", "busy"}
                    /\ (execRes'.err = "nil" => execRes'.rowsAffected = 0))]_vars

\* a fetched record whose key was already stored has just been ignored
C3_Witness ==
    /\ wpc = "upsert"
    /\ idx > 1
    /\ execRes = [err |-> "nil", rowsAffected |-> 0]
    /\ HasKey(store, RowOf(fetched[idx - 1]))

\* C4: once stopChan is closed the worker begins no cycle (it does not pass
\* the select into a watermark read again); from the select it can only
\* return.
C4_NoNewCycleAfterStop ==
    [][stopChan = "closed" =>
          /\ ~(wpc # "read" /\ wpc' = "read")
          /\ (wpc = "select" /\ wpc' # wpc) => wpc' = "returned"]_vars

\* the signal came during a cycle, the worker finished it and returned
C4_Witness ==
    /\ stopChan = "closed"
    /\ sigMidCycle
    /\ wpc = "returned"
    /\ store # <<>>

\* C5: a failed fetch leaves the worker running (it backs off and goes back
\* to the select) and the store, hence the watermark, as it was, however
\* many fetches failed before; the first fetch that succeeds after failures
\* yields the page above the store's watermark, which the loop then
\* upserts from its first record.
C5_FetchFailureResilience ==
    [][/\ fails' > fails =>
             (store' = store /\ wpc' = "backoff" /\ wg' = wg /\ proc' = proc)
       /\ store' # store => wpc = "upsert"
       /\ (wpc = "backoff" /\ wpc' # wpc) => wpc' = "select"
       /\ (fails > 0 /\ wpc = "fetch" /\ wpc' = "upsert") =>
             /\ fetched' = FeedPage(feed, getLastTimestamp(store, readErr))
             /\ idx' = 1]_vars

\* MaxFails fetches failed in a row, the next succeeded and a record of its
\* page has been inserted
C5_Witness ==
    /\ fails = MaxFails
    /\ wpc = "upsert"
    /\ idx > 1
    /\ execRes = [err |-> "nil", rowsAffected |-> 1]

\* C6: a successful query that no stored record matches answers 200 with
\* "data" an empty array (not null).
C6_EmptyResultIsEmptyArray ==
    (resp.status = StatusOK /\ SelectRows(store, reqYear) = {}) =>
        (resp.body.kind = "array" /\ resp.body.elems = <<>>)

\* the stored records a query for year y is to return (all of them for no year)
Wanted(y) ==
    {r \in Range(store) : y = EmptyString \/ Year(r.timestamp) = y}

\* C7: a successful query returns exactly the stored records of the year
\* asked for (all records when no year is given), each once, by timestamp
\* descending.
C7_YearFilter ==
    resp.status = StatusOK =>
        LET e == resp.body.elems
        IN  /\ Range(e) = Wanted(reqYear)
            /\ Len(e) = Cardinality(Wanted(reqYear))
            /\ \A i, j \in 1..Len(e) : i < j => e[i].timestamp >= e[j].timestamp

\* a year was asked for; two records of it came back, newest first, and a
\* stored record of another year was left out
C7_Witness ==
    /\ resp.status = StatusOK
    /\ reqYear # EmptyString
    /\ Len(resp.body.elems) = 2
    /\ resp.body.elems[1].timestamp > resp.body.elems[2].timestamp
    /\ Len(store) = 3

\* C8: getLastTimestamp returns the greatest stored timestamp when the store
\* has rows and the default epoch when it has none (the read itself having
\* succeeded).
C8_WatermarkIsMax ==
    (lastTimestamp # EmptyString /\ ~readErr) =>
        IF store = <<>> THEN lastTimestamp = DefaultEpoch
        ELSE /\ \E r \in Range(store) : r.timestamp = lastTimestamp
             /\ \A r \in Range(store) : r.timestamp <= lastTimestamp

\* the greatest timestamp was returned and it is neither the last row's nor
\* the default epoch
C8_Witness ==
    /\ lastTimestamp # EmptyString
    /\ ~readErr
    /\ Len(store) >= 2
    /\ lastTimestamp = store[1].timestamp
    /\ store[Len(store)].timestamp < lastTimestamp
    /\ lastTimestamp # DefaultEpoch

\* C9: after a restart, every record of the interrupted batch that is not in
\* the store is above the watermark recomputed from the store, so the fetch
\* asks for it again.
C9_InterruptedBatchRefetched ==
    \A row \in interrupted :
        HasKey(store, row) \/ row.timestamp > getLastTimestamp(store, FALSE)

\* C10: the worker stops only at the select, on the closed stopChan, and the
\* process does not end normally with the worker inside a batch, records of
\* it not yet attempted.
C10_StopOnlyAtCycleTop ==
    [][/\ (wpc # "returned" /\ wpc' = "returned") =>
             (wpc = "select" /\ stopChan = "closed")
       /\ (proc # "exited" /\ proc' = "exited") =>
             ~(wpc' = "upsert" /\ idx' <= Len(fetched'))]_vars

\* C11: a request whose storage query, row scan or row iteration failed was
\* answered with status 500 and an error text, never with status 200 and
\* defaulted or partial data.
C11_StorageErrorIs500 ==
    served.outcome \in {"query", "scan", "rows"} =>
        /\ resp.status = StatusInternalServerError
        /\ resp.body.kind = "text"
        /\ resp.body.elems = <<>>

\* the iteration over a table of several matching rows failed and the
\* answer is the 500
C11_Witness ==
    /\ served.outcome = "rows"
    /\ reqYear = EmptyString
    /\ Len(store) >= 2
    /\ resp = ErrorResponse

\* the process has ended, and not by main returning
Abnormal(p) == p \notin {"starting", "serving", "exited"}

\* C12 as stated: a process that ended abnormally ended on a failed initDB or
\* on an expired Shutdown deadline.
C12_OnlyInitAndShutdownFatal ==
    Abnormal(proc) => proc \in {"fatal_init", "fatal_shutdown"}

\* C12: the process ends abnormally only on a failed initDB at startup, on
\* ListenAndServe returning an error other than ErrServerClosed, or on an
\* expired Shutdown deadline; a failed fetch or decode, a failed watermark
\* read, a failed insert and a returning handler leave the process running.
C12_FatalOnlyInitListenShutdown ==
    [][/\ (~Abnormal(proc) /\ Abnormal(proc')) =>
             \/ proc = "starting" /\ proc' = "fatal_init"
             \/ proc = "serving" /\ ~inShutdown /\ proc' = "fatal_listen"
             \/ proc = "serving" /\ sigpc = "draining" /\ hpc = "active"
                                  /\ proc' = "fatal_shutdown"
       /\ (fails' > fails \/ (readErr' /\ ~readErr) \/ UpsertStep
             \/ (hpc = "active" /\ hpc' = "idle")) => proc' = proc]_vars

\* the process is serving after a failed watermark read, a failed fetch and a
\* failed insert in the same cycle
C12_Witness ==
    /\ proc = "serving"
    /\ readErr
    /\ fails > 0
    /\ wpc = "upsert"
    /\ execRes.err = "busy"

\* C13: a request handled with no storage failure is answered 200 with the
\* stored records asked for, whatever the worker is doing and however many
\* fetches have failed; an answer other than 200 comes only from a storage
\* failure of that request; and a failed fetch leaves the table, hence every
\* later answer, as it was.
C13_IngestionFailureInvisible ==
    [][/\ (hpc = "active" /\ hpc' = "idle") =>
             /\ served'.outcome = "ok" =>
                    /\ resp'.status = StatusOK
                    /\ Range(resp'.body.elems) = Wanted(reqYear)
             /\ resp'.status # StatusOK => served'.outcome \in {"query", "scan", "rows"}
       /\ fails' > fails => store' = store]_vars

\* with the remote source failing for the second time in a row, a request
\* was answered 200 with the records stored before the outage
C13_Witness ==
    /\ served.outcome = "ok"
    /\ served.fails = MaxFails
    /\ fails = MaxFails
    /\ resp.status = StatusOK
    /\ resp.body.elems # <<>>
    /\ Range(resp.body.elems) = Range(store)

\* C14: every row of the table is still in it, with the same amount and
\* level, after any step of the worker, of a handler or of the remote API,
\* also when the batch holds the row's key with other values.
C14_AppendOnly ==
    [][\A r \in Range(store) : r \in Range(store')]_vars

\* the record just passed to the INSERT has the key of a stored row and
\* another amount or level; the statement changed no row
C14_Witness ==
    /\ wpc = "upsert"
    /\ idx > 1
    /\ execRes = [err |-> "nil", rowsAffected |-> 0]
    /\ HasKey(store, RowOf(fetched[idx - 1]))
    /\ RowOf(fetched[idx - 1]) \notin Range(store)

\* C15: once stopChan is closed the worker returns and its wg.Done brings
\* the WaitGroup counter to zero, which is what unblocks wg.Wait.
C15_WorkerReturnsAfterStop ==
    (stopChan = "closed") ~> (wpc = "returned" /\ wg = 0)

C17_FailedUpsertRefetched ==
    (wpc = "upsert" /\ idx > Len(fetched)) =>
        \A f \in Range(fetched) :
            (\A r \in Range(store) : r.timestamp # f.timestamp) =>
                f.timestamp > getLastTimestamp(store, FALSE)

\* C18: a failed insert leaves the worker in the range loop at the next
\* record of the same batch, the table as it was; the worker leaves the loop
\* only with every record of the batch passed to an insert, and then for the
\* 30 s sleep, not the 10 s one.
C18_FailedUpsertDoesNotAbort ==
    [][/\ (UpsertStep /\ execRes'.err = "busy") =>
             (wpc' = "upsert" /\ fetched' = fetched /\ store' = store)
       /\ (wpc = "upsert" /\ wpc' # "upsert") =>
             (idx > Len(fetched) /\ wpc' = "sleep")]_vars

\* the insert of the first record failed, the insert of the last record of
\* the batch was made and stored it, and the loop is over
C18_Witness ==
    /\ wpc = "upsert"
    /\ Len(fetched) >= 2
    /\ idx > Len(fetched)
    /\ ~HasKey(store, RowOf(fetched[1]))
    /\ HasKey(store, RowOf(fetched[Len(fetched)]))
    /\ execRes = [err |-> "nil", rowsAffected |-> 1]

\* C19 as stated: no cycle, one whose watermark read failed included, gets a
\* fetch lower bound below the one an earlier cycle used.
C19_EveryCycleNonDecreasing ==
    [][(wpc = "read" /\ wpc' = "fetch") => lastTimestamp' >= maxBound]_vars

\* C19: a cycle whose watermark read succeeds gets a fetch lower bound that
\* is not below the one any earlier cycle used.
C19_GoodReadsNonDecreasing ==
    [][(wpc = "read" /\ wpc' = "fetch" /\ ~readErr') => lastTimestamp' >= maxBound]_vars

\* a cycle has read a watermark above the epoch the first cycle used, and
\* no earlier cycle used a greater one
C19_Witness ==
    /\ wpc = "fetch"
    /\ ~readErr
    /\ lastTimestamp > DefaultEpoch
    /\ lastTimestamp = maxBound
    /\ Len(store) >= 2

\* C20: a watermark read that hit a storage error gave the default epoch and
\* the cycle went on to the fetch, which asks the remote API for the
\* operations after that instant.
C20_ReadErrorFallsBackToEpoch ==
    /\ [](readErr => lastTimestamp = DefaultEpoch)
    /\ [][/\ (wpc = "read" /\ wpc' # "read" /\ readErr') =>
               (wpc' = "fetch" /\ proc' = proc /\ wg' = wg)
          /\ (wpc = "fetch" /\ readErr /\ wpc' = "upsert") =>
               fetched' = FeedPage(feed, DefaultEpoch)]_vars

\* with rows in the table the watermark read failed, the fetch was made from
\* the epoch and returned an operation the table already holds
C20_Witness ==
    /\ readErr
    /\ wpc = "upsert"
    /\ lastTimestamp = DefaultEpoch
    /\ idx = 1
    /\ fetched # <<>>
    /\ HasKey(store, RowOf(fetched[1]))

\* C21: with a second writer and the handlers stepping between the worker's
\* statements, no two rows of the table have the same (timestamp, delegator),
\* and a 200 response lists no record twice, is in descending order of
\* timestamp and holds only rows of the table.
C21_NoDuplicatesUnderInterleaving ==
    /\ UniqueKeys(store)
    /\ resp.status = StatusOK =>
          LET e == resp.body.elems
          IN  /\ \A i, j \in 1..Len(e) : KeyOf(e[i]) = KeyOf(e[j]) => i = j
              /\ \A i, j \in 1..Len(e) : i < j => e[i].timestamp >= e[j].timestamp
              /\ Range(e) \subseteq Range(store)

\* the worker, with a batch of two still in flight, found the first record
\* of it already inserted by the second writer, and a query answered between
\* the two statements listed two rows
C21_Witness ==
    /\ wpc = "upsert"
    /\ ~readErr
    /\ Len(fetched) >= 2
    /\ idx = 2
    /\ execRes = [err |-> "nil", rowsAffected |-> 0]
    /\ hpc = "idle"
    /\ resp.status = StatusOK
    /\ Len(resp.body.elems) >= 2
    /\ resp.body.elems[1].timestamp > resp.body.elems[2].timestamp

\* C22: the value a cycle fetches with is the one getLastTimestamp gave in
\* that cycle; when that read met no storage error it is the watermark of
\* the table as it is when the fetch is issued, also in a process started
\* again on the file.
C22_BoundReadInSameCycle ==
    /\ []((wpc = "fetch" /\ ~readErr) => lastTimestamp = getLastTimestamp(store, FALSE))
    /\ [][/\ (wpc = "read" /\ wpc' = "fetch") =>
               lastTimestamp' = getLastTimestamp(store, readErr')
          /\ (wpc = "fetch" /\ wpc' = "upsert") =>
               /\ fetched' = FeedPage(feed, lastTimestamp)
               /\ ~readErr => fetched' = FeedPage(feed, getLastTimestamp(store, FALSE))]_vars

\* a process started again on a table with rows has read the watermark and
\* fetched the operations after it
C22_Witness ==
    /\ restarts > 0
    /\ wpc = "upsert"
    /\ idx = 1
    /\ ~readErr
    /\ lastTimestamp > DefaultEpoch
    /\ fetched # <<>>
    /\ \A f \in Range(fetched) : f.timestamp > lastTimestamp

\* C23: the WaitGroup counter is 1 from the start of the worker until the
\* worker returns and 0 after; the only step that lowers it is the worker's
\* return from the select on a closed stopChan, after which the worker does
\* nothing more; and wg.Wait has returned only with stopChan closed and the
\* worker returned.
C23_BarrierReleasedOnceOnStop ==
    /\ [](wpc \in {"select", "read", "fetch", "upsert", "sleep", "backoff"} => wg = 1)
    /\ [](wpc = "returned" => (wg = 0 /\ stopChan = "closed"))
    /\ [](sigpc = "done" => (stopChan = "closed" /\ wpc = "returned"))
    /\ [][/\ wg' < wg =>
               (wg = 1 /\ wg' = 0 /\ wpc = "select" /\ stopChan = "closed"
                  /\ wpc' = "returned")
          /\ wpc = "returned" => (wpc' = "returned" /\ wg' = wg)]_vars

\* after batches that stored rows the worker saw the closed stopChan and
\* returned, and wg.Wait has returned in the signal goroutine
C23_Witness ==
    /\ sigpc = "done"
    /\ wpc = "returned"
    /\ wg = 0
    /\ Len(store) >= 2

====
